---------------------------- MODULE Spec2Model ----------------------------
(***************************************************************************)
(* Model of src/mcq_generator.py: the rule-based quiz generator            *)
(* (QuizGenerator.clean_text, extract_key_concepts,                        *)
(* generate_multiple_choice_questions, generate_true_false_questions),     *)
(* the scorer (display_quiz_results) and the Streamlit session of main().  *)
(*                                                                         *)
(* A Python str is modelled as a sequence of one-character strings, so     *)
(* that len(), slicing, split(), strip(), lower(), replace() and the two   *)
(* regular expressions of clean_text are computed character by character.  *)
(***************************************************************************)
EXTENDS Integers, Sequences, FiniteSets, TLC

VARIABLES
    text,            \* the str argument of the function under test
    num_questions,   \* the int argument of the function under test
    ret,             \* the value returned by the function under test
    ret2,            \* the value returned by a second application
    used_terms,      \* generate_multiple_choice_questions' used_terms at return
    questions,       \* st.session_state.questions
    user_answers,    \* st.session_state.user_answers
    quiz_generated,  \* st.session_state.quiz_generated
    quiz_submitted,  \* st.session_state.quiz_submitted
    pdf_processed,   \* st.session_state.pdf_processed
    results,         \* what display_quiz_results computed on its last run
    last_op         \* the operation that ran last

vars == <<text, num_questions, ret, ret2, used_terms, questions, user_answers,
          quiz_generated, quiz_submitted, pdf_processed, results, last_op>>

session == <<questions, user_answers, quiz_generated, quiz_submitted,
             pdf_processed>>

NotCalled == "NotCalled"

\* results before display_quiz_results has run
NoResults == [raised |-> NotCalled]
\* display_quiz_results has run
ResultsShown == results.raised # NotCalled

-----------------------------------------------------------------------------
(* Characters and the Python str methods the program uses.                 *)

UpperLetters == <<"A","B","C","D","E","F","G","H","I","J","K","L","M",
                  "N","O","P","Q","R","S","T","U","V","W","X","Y","Z">>
LowerLetters == <<"a","b","c","d","e","f","g","h","i","j","k","l","m",
                  "n","o","p","q","r","s","t","u","v","w","x","y","z">>

Range(f) == {f[i] : i \in DOMAIN f}

UpperSet == Range(UpperLetters)
LowerSet == Range(LowerLetters)
LetterSet == UpperSet \cup LowerSet
DigitSet == {"0","1","2","3","4","5","6","7","8","9"}

\* \s of the re module, and the characters str.strip() and str.split() drop
SpaceSet == {" ", "\n", "\t"}

\* \w of the re module
WordCharSet == LetterSet \cup DigitSet \cup {"_"}

\* the complement of [^\w\s.,;:!?()-]
AllowedCharSet ==
    WordCharSet \cup SpaceSet \cup {".", ",", ";", ":", "!", "?", "(", ")", "-"}

IsUpper(c) == c \in UpperSet
IsLower(c) == c \in LowerSet
IsLetter(c) == c \in LetterSet
IsSpace(c) == c \in SpaceSet
IsAllowedChar(c) == c \in AllowedCharSet

\* the argument of word.strip('.,;:!?()[]{}"\'-')
WordStripChars ==
    {".", ",", ";", ":", "!", "?", "(", ")", "[", "]", "{", "}", "\"", "'", "-"}

Min(S) == CHOOSE m \in S : \A k \in S : m <= k
MinOf(a, b) == IF a <= b THEN a ELSE b
MaxOf(a, b) == IF a >= b THEN a ELSE b

\* c.lower() for the uppercase letters
LowerOf == [c \in UpperSet |-> LowerLetters[CHOOSE i \in 1..26 : UpperLetters[i] = c]]

\* c.lower()
LowerChar(c) == IF c \in UpperSet THEN LowerOf[c] ELSE c

\* s.lower()
Lower(s) == [i \in 1..Len(s) |-> LowerChar(s[i])]

\* s[:n]
Prefix(s, n) == SubSeq(s, 1, MinOf(n, Len(s)))

\* the first position at or after i whose character is not in chars
RECURSIVE FirstKept(_, _, _)
FirstKept(s, chars, i) ==
    IF i > Len(s) \/ s[i] \notin chars THEN i ELSE FirstKept(s, chars, i + 1)

\* the last position at or before i whose character is not in chars
RECURSIVE LastKept(_, _, _)
LastKept(s, chars, i) ==
    IF i < 1 \/ s[i] \notin chars THEN i ELSE LastKept(s, chars, i - 1)

\* s.strip(chars), for a set of characters
StripSet(s, chars) == SubSeq(s, FirstKept(s, chars, 1), LastKept(s, chars, Len(s)))

\* s.strip()
Strip(s) == StripSet(s, SpaceSet)

\* s.split(sep) for a one-character separator: the pieces between the
\* separators, empty pieces included
RECURSIVE SplitFrom(_, _, _)
SplitFrom(s, sep, start) ==
    LET hits == {i \in start..Len(s) : s[i] = sep}
    IN  IF hits = {}
        THEN <<SubSeq(s, start, Len(s))>>
        ELSE <<SubSeq(s, start, Min(hits) - 1)>> \o SplitFrom(s, sep, Min(hits) + 1)

Split(s, sep) == SplitFrom(s, sep, 1)

\* the position after the word that starts at position i
RECURSIVE WordEnd(_, _)
WordEnd(s, i) ==
    IF i > Len(s) \/ IsSpace(s[i]) THEN i ELSE WordEnd(s, i + 1)

\* the elements of a set of integers in increasing order
RECURSIVE Sorted(_)
Sorted(S) == IF S = {} THEN <<>> ELSE <<Min(S)>> \o Sorted(S \ {Min(S)})

\* s.split(): the maximal runs of non-whitespace characters
Words(s) ==
    LET starts == Sorted({i \in 1..Len(s) :
                            ~IsSpace(s[i]) /\ (i = 1 \/ IsSpace(s[i - 1]))})
    IN  [k \in 1..Len(starts) |-> SubSeq(s, starts[k], WordEnd(s, starts[k]) - 1)]

\* ' '.join(parts)
RECURSIVE JoinFrom(_, _)
JoinFrom(parts, i) ==
    IF i > Len(parts) THEN <<>>
    ELSE IF i = Len(parts) THEN parts[i]
    ELSE parts[i] \o <<" ">> \o JoinFrom(parts, i + 1)

Join(parts) == JoinFrom(parts, 1)

\* needle in hay
Contains(hay, needle) ==
    \E i \in 1..(Len(hay) - Len(needle) + 1) :
        \A j \in 1..Len(needle) : hay[i + j - 1] = needle[j]

\* s.replace(old, new): the non-overlapping occurrences of old, left to right
RECURSIVE ReplaceFrom(_, _, _, _)
ReplaceFrom(s, old, new, start) ==
    LET hits == {i \in start..(Len(s) - Len(old) + 1) :
                    \A j \in 1..Len(old) : s[i + j - 1] = old[j]}
    IN  IF hits = {}
        THEN SubSeq(s, start, Len(s))
        ELSE SubSeq(s, start, Min(hits) - 1) \o new
                \o ReplaceFrom(s, old, new, Min(hits) + Len(old))

Replace(s, old, new) == ReplaceFrom(s, old, new, 1)

\* w.isalpha()
IsAlpha(w) == Len(w) > 0 /\ \A i \in 1..Len(w) : IsLetter(w[i])

\* w.istitle(): some cased character, every uppercase one after an uncased
\* character and every lowercase one after a cased character
IsTitle(w) ==
    /\ \E i \in 1..Len(w) : IsLetter(w[i])
    /\ \A i \in 1..Len(w) :
        LET prevCased == i > 1 /\ IsLetter(w[i - 1])
        IN  /\ IsUpper(w[i]) => ~prevCased
            /\ IsLower(w[i]) => prevCased

-----------------------------------------------------------------------------
(* QuizGenerator.clean_text                                                *)

MinLineLen == 10

\* re.sub(r'\s+', ' ', text): every maximal run of whitespace becomes one space
CollapseWhitespace(s) ==
    LET idx == SelectSeq([i \in 1..Len(s) |-> i],
                         LAMBDA i : ~IsSpace(s[i]) \/ i = 1 \/ ~IsSpace(s[i - 1]))
    IN  [k \in 1..Len(idx) |-> IF IsSpace(s[idx[k]]) THEN " " ELSE s[idx[k]]]

\* re.sub(r'[^\w\s.,;:!?()-]', '', text)
RemoveSpecialChars(s) == SelectSeq(s, IsAllowedChar)

\* [line.strip() for line in lines if len(line.strip()) > 10]
CleanedLines(lines) ==
    SelectSeq([i \in 1..Len(lines) |-> Strip(lines[i])],
              LAMBDA l : Len(l) > MinLineLen)

clean_text(t) ==
    LET t1 == CollapseWhitespace(t)
        t2 == RemoveSpecialChars(t1)
        lines == Split(t2, "\n")
    IN  Join(CleanedLines(lines))

-----------------------------------------------------------------------------
(* Bounded inputs: texts are concatenations of a few fragments.            *)

\* Seq(S) restricted to the lengths 0..n
RECURSIVE SeqsUpTo(_, _)
SeqsUpTo(S, n) ==
    IF n = 0 THEN {<<>>}
    ELSE LET shorter == SeqsUpTo(S, n - 1)
         IN  shorter \cup {Append(q, x) : q \in {r \in shorter : Len(r) = n - 1}, x \in S}

\* ''.join(parts)
RECURSIVE Concat(_, _)
Concat(parts, i) ==
    IF i > Len(parts) THEN <<>> ELSE parts[i] \o Concat(parts, i + 1)

MaxRawPieces == 5

RawPieces ==
    << <<"q","u","i","z","z","e","s">>,
       <<"a","r","e"," ","f","u","n",".">>,
       <<" ">>,
       <<"\n">>,
       <<"#">> >>

RawTexts ==
    {Concat([i \in 1..Len(p) |-> RawPieces[p[i]]], 1) :
        p \in SeqsUpTo(1..Len(RawPieces), MaxRawPieces)}

-----------------------------------------------------------------------------
(* SpecClean: clean_text applied to a raw text, then to its own result.    *)

\* the session before main() has run, and no script run yet
NoSession ==
    /\ questions = <<>>
    /\ user_answers = <<>>
    /\ quiz_generated = FALSE
    /\ quiz_submitted = FALSE
    /\ pdf_processed = FALSE
    /\ results = NoResults
    /\ last_op = "init"

InitClean ==
    /\ text \in RawTexts
    /\ num_questions = 0
    /\ ret = NotCalled
    /\ ret2 = NotCalled
    /\ used_terms = {}
    /\ NoSession

CallCleanText ==
    /\ ret = NotCalled
    /\ ret' = clean_text(text)
    /\ UNCHANGED <<text, num_questions, ret2, used_terms, session, results, last_op>>

CallCleanTextAgain ==
    /\ ret # NotCalled
    /\ ret2 = NotCalled
    /\ ret2' = clean_text(ret)
    /\ UNCHANGED <<text, num_questions, ret, used_terms, session, results, last_op>>

NextClean == CallCleanText \/ CallCleanTextAgain

SpecClean == InitClean /\ [][NextClean]_vars

\* C2: clean_text is idempotent: cleaning an already cleaned text returns it
\* unchanged, clean_text(clean_text(t)) = clean_text(t) for every t.
C2_CleanTextIdempotent == ret2 # NotCalled => ret2 = ret

-----------------------------------------------------------------------------
(* QuizGenerator.extract_key_concepts                                      *)

MinTitleLen == 3
MinLongWordLen == 7
MaxKeyTerms == 30

\* [s.strip() for s in text.split('.') if len(s.strip()) > n]
SentencesLongerThan(t, n) ==
    LET parts == Split(t, ".")
    IN  SelectSeq([i \in 1..Len(parts) |-> Strip(parts[i])],
                  LAMBDA s : Len(s) > n)

\* the test of line 168 on a word already stripped of its punctuation
IsKeyTerm(w) ==
    \/ IsTitle(w) /\ Len(w) > MinTitleLen
    \/ Len(w) > MinLongWordLen /\ IsAlpha(w)

\* set(key_terms): the distinct accepted words of the text
KeyTermSet(t) ==
    LET words == Words(t)
        stripped == {StripSet(words[i], WordStripChars) : i \in 1..Len(words)}
    IN  {w \in stripped : IsKeyTerm(w)}

\* list(set(key_terms))[:30]: the iteration order of a set is unspecified, so
\* any 30 of the terms can survive the cut; the callers never use the order
extract_key_concepts(t) ==
    LET all == KeyTermSet(t)
    IN  IF Cardinality(all) <= MaxKeyTerms
        THEN {all}
        ELSE {S \in SUBSET all : Cardinality(S) = MaxKeyTerms}

-----------------------------------------------------------------------------
(* QuizGenerator.generate_multiple_choice_questions                        *)

MinMCSentenceLen == 30
MinMCSentences == 3
MaxAnswerLen == 100
MaxDistractorLen == 100
MaxExcerptLen == 150
NumDistractors == 3

\* question_patterns, each split at its {}
question_patterns ==
    << [pre |-> <<"W","h","a","t"," ","i","s"," ","t","h","e"," ","m","a",
                 "i","n"," ","c","o","n","c","e","p","t"," ","o","f"," ">>, post |-> <<"?">>],
       [pre |-> <<"A","c","c","o","r","d","i","n","g"," ","t","o"," ","t",
                 "h","e"," ","d","o","c","u","m","e","n","t",","," ","w",
                 "h","a","t"," ","i","s"," ">>, post |-> <<"?">>],
       [pre |-> <<"H","o","w"," ","i","s"," ">>,
        post |-> <<" ","d","e","f","i","n","e","d"," ","i","n"," ","t","h",
                  "e"," ","t","e","x","t","?">>],
       [pre |-> <<"W","h","a","t"," ","a","r","e"," ","t","h","e"," ","k",
                 "e","y"," ","c","h","a","r","a","c","t","e","r","i","s",
                 "t","i","c","s"," ","o","f"," ">>, post |-> <<"?">>],
       [pre |-> <<"W","h","a","t"," ","d","o","e","s"," ","t","h","e"," ",
                 "d","o","c","u","m","e","n","t"," ","s","a","y"," ","a",
                 "b","o","u","t"," ">>, post |-> <<"?">>],
       [pre |-> <<"W","h","i","c","h"," ","s","t","a","t","e","m","e","n",
                 "t"," ","b","e","s","t"," ","d","e","s","c","r","i","b",
                 "e","s"," ">>, post |-> <<"?">>],
       [pre |-> <<"W","h","a","t"," ","i","s"," ","t","h","e"," ","p","r",
                 "i","m","a","r","y"," ","f","u","n","c","t","i","o","n",
                 " ","o","f"," ">>, post |-> <<"?">>],
       [pre |-> <<"A","c","c","o","r","d","i","n","g"," ","t","o"," ","t",
                 "h","e"," ","c","o","n","t","e","n","t",","," ">>, post |-> <<" ","i","s",":">>] >>

\* pattern.format(term)
FormatPattern(p, term) == question_patterns[p].pre \o term \o question_patterns[p].post

\* f"A concept related to {term} as described in the document"
GenericAnswer(term) ==
    <<"A"," ","c","o","n","c","e","p","t"," ","r","e","l","a","t","e","d",
      " ","t","o"," ">> \o term \o
    <<" ","a","s"," ","d","e","s","c","r","i","b","e","d"," ","i","n"," ",
      "t","h","e"," ","d","o","c","u","m","e","n","t">>

\* the three generic distractors of lines 239-243
GenericDistractors(term) ==
    << <<"A","n"," ","u","n","r","e","l","a","t","e","d"," ","c","o","n",
          "c","e","p","t"," ","n","o","t"," ","m","e","n","t","i","o","n",
          "e","d"," ","i","n"," ","t","h","e"," ","d","o","c","u","m","e",
          "n","t">>,
       <<"A"," ","d","i","f","f","e","r","e","n","t"," ","t","o","p","i",
          "c"," ","e","n","t","i","r","e","l","y"," ","s","e","p","a","r",
          "a","t","e"," ","f","r","o","m"," ">> \o term,
       <<"I","n","f","o","r","m","a","t","i","o","n"," ","n","o","t"," ",
          "c","o","v","e","r","e","d"," ","i","n"," ","t","h","i","s"," ",
          "d","o","c","u","m","e","n","t">> >>

\* f"This information relates to {term} as mentioned in the document: {correct_context[:150]}..."
MCExplanation(term, correct_context) ==
    <<"T","h","i","s"," ","i","n","f","o","r","m","a","t","i","o","n"," ",
      "r","e","l","a","t","e","s"," ","t","o"," ">> \o term \o
    <<" ","a","s"," ","m","e","n","t","i","o","n","e","d"," ","i","n"," ",
      "t","h","e"," ","d","o","c","u","m","e","n","t",":"," ">> \o
    Prefix(correct_context, MaxExcerptLen) \o <<".", ".", ".">>

\* d[:100] + "..." if len(d) > 100 else d
TruncateDistractor(d) ==
    IF Len(d) > MaxDistractorLen
    THEN Prefix(d, MaxDistractorLen) \o <<".", ".", ".">>
    ELSE d

\* term.lower() in s.lower()
Mentions(s, term) == Contains(Lower(s), Lower(term))

\* [s for s in sentences if term.lower() in s.lower()]
ContextSentences(sentences, term) ==
    SelectSeq(sentences, LAMBDA s : Mentions(s, term))

\* [s for s in sentences if term.lower() not in s.lower()]
OtherSentences(sentences, term) ==
    SelectSeq(sentences, LAMBDA s : ~Mentions(s, term))

\* correct_context: the first context sentence.  Line 224 of the file as stored
\* reads "context_sentences,[object Object]," (a subscript lost in rendering);
\* lines 228, 229 and 256 use correct_context as one str, and the specification
\* names the first matching context sentence.
CorrectContext(context_sentences) == context_sentences[1]

\* lines 227-229
CorrectAnswer(term, correct_context) ==
    IF Len(correct_context) < MaxAnswerLen
    THEN correct_context
    ELSE GenericAnswer(term)

\* random.sample(other_sentences, 3): the lists of 3 sentences at distinct
\* positions, in any order
SampleThree(other_sentences) ==
    {<<other_sentences[i], other_sentences[j], other_sentences[k]>> :
        <<i, j, k>> \in {t \in (DOMAIN other_sentences) \X (DOMAIN other_sentences)
                                 \X (DOMAIN other_sentences) :
                            t[1] # t[2] /\ t[1] # t[3] /\ t[2] # t[3]}}

\* lines 234-246: the possible distractor lists, truncated
DistractorChoices(other_sentences, term) ==
    LET raw == IF Len(other_sentences) >= NumDistractors
               THEN SampleThree(other_sentences)
               ELSE {GenericDistractors(term)}
    IN  {[i \in 1..Len(d) |-> TruncateDistractor(d[i])] : d \in raw}

\* random.shuffle(l): every ordering of the list
Shuffles(l) ==
    {[i \in 1..Len(l) |-> l[p[i]]] : p \in Permutations(1..Len(l))}

\* a variant of line 249 that leaves the correct answer out of the options
MCOptionsWithoutAnswer(correct_answer, distractors) ==
    Prefix(distractors, NumDistractors)

\* line 249: options = [correct_answer] + distractors[:3]
MCOptionsUnshuffled(correct_answer, distractors) ==
    <<correct_answer>> \o Prefix(distractors, NumDistractors)

\* one iteration of the loop of lines 205-258 for the drawn term: the lists it
\* can append to questions (none if the term has no context sentence)
MCIteration(sentences, term) ==
    LET context_sentences == ContextSentences(sentences, term)
    IN  IF Len(context_sentences) = 0
        THEN {<<>>}
        ELSE LET correct_context == CorrectContext(context_sentences)
                 correct_answer == CorrectAnswer(term, correct_context)
                 other_sentences == OtherSentences(sentences, term)
                 optionLists ==
                    UNION {Shuffles(MCOptionsUnshuffled(correct_answer, d)) :
                              d \in DistractorChoices(other_sentences, term)}
             IN  {<<[question |-> FormatPattern(p, term),
                     options |-> o,
                     correct_answer |-> correct_answer,
                     explanation |-> MCExplanation(term, correct_context),
                     topic |-> term]>> :
                    p \in DOMAIN question_patterns, o \in optionLists}

\* range(min(num_questions, len(key_terms)))
MCIterations(n, key_terms) == MaxOf(0, MinOf(n, Cardinality(key_terms)))

\* a variant of line 221 that draws another term in place of a skipped one
IterationsLeftAfterRetry(left, head) == IF head = <<>> THEN left ELSE left - 1

\* the iterations of the for loop still to run after one that appended `head`:
\* the `continue` of line 221 uses up its iteration like any other
IterationsLeftAfter(left, head) == left - 1

\* the loop of lines 205-258 with `left` iterations to go, `used` the terms
\* drawn so far and `acc` the questions appended so far: every iteration draws
\* an unused term with random.choice, marks it used and appends what the
\* iteration produces.  The result is the set of possible outcomes, each the
\* final list of questions with the terms drawn.
RECURSIVE MCLoop(_, _, _, _, _)
MCLoop(sentences, key_terms, used, left, acc) ==
    IF left = 0 \/ key_terms \ used = {}
    THEN {[questions |-> acc, used_terms |-> used]}
    ELSE UNION {
            UNION {MCLoop(sentences, key_terms, used \cup {term},
                          IterationsLeftAfter(left, head), acc \o head) :
                      head \in MCIteration(sentences, term)} :
            term \in key_terms \ used}

\* a variant of line 180 that lets a text of two usable sentences through
TooFewSentencesBelowTwo(sentences) == Len(sentences) < MinMCSentences - 1

\* line 180
TooFewSentences(sentences) == Len(sentences) < MinMCSentences

\* generate_multiple_choice_questions(t, n): the possible outcomes, each the
\* list a run returns with its used_terms at that point
generate_multiple_choice_questions(t, n) ==
    LET sentences == SentencesLongerThan(t, MinMCSentenceLen)
    IN  IF TooFewSentences(sentences)
        THEN {[questions |-> <<>>, used_terms |-> {}]}
        ELSE UNION {
                IF key_terms = {}
                THEN {[questions |-> <<>>, used_terms |-> {}]}
                ELSE MCLoop(sentences, key_terms, {}, MCIterations(n, key_terms), <<>>) :
                key_terms \in extract_key_concepts(t)}

-----------------------------------------------------------------------------
(* QuizGenerator.generate_true_false_questions                             *)

MinTFSentenceLen == 20

TrueStr == <<"T","r","u","e">>
FalseStr == <<"F","a","l","s","e">>

\* f"True or False: {sentence}"
TFPrompt(sentence) ==
    <<"T","r","u","e"," ","o","r"," ","F","a","l","s","e",":"," ">> \o sentence

\* sentence.replace("is", "is not").replace("are", "are not")
Negate(sentence) ==
    Replace(Replace(sentence, <<"i","s">>, <<"i","s"," ","n","o","t">>),
            <<"a","r","e">>, <<"a","r","e"," ","n","o","t">>)

\* lines 271-277
TrueQuestion(sentence) ==
    [question |-> TFPrompt(sentence),
     options |-> <<TrueStr, FalseStr>>,
     correct_answer |-> TrueStr,
     explanation |-> <<"T","h","i","s"," ","s","t","a","t","e","m","e",
                         "n","t"," ","i","s"," ","d","i","r","e","c","t",
                         "l","y"," ","f","r","o","m"," ","t","h","e"," ",
                         "d","o","c","u","m","e","n","t",".">>,
     type |-> "true_false"]

\* a variant of lines 284-291 that negates the next sentence, sentences[i + 1]
FalseQuestionFromNext(sentences, i) ==
    [question |-> TFPrompt(Negate(sentences[i + 1])),
     options |-> <<TrueStr, FalseStr>>,
     correct_answer |-> FalseStr,
     explanation |-> <<>>,
     type |-> "true_false"]

\* lines 284-291: the false statement of iteration i is made from `sentence`,
\* which is sentences[i]
FalseQuestion(sentences, i) ==
    [question |-> TFPrompt(Negate(sentences[i])),
     options |-> <<TrueStr, FalseStr>>,
     correct_answer |-> FalseStr,
     explanation |-> <<"T","h","i","s"," ","i","s"," ","a"," ","m","o",
                         "d","i","f","i","e","d"," ","v","e","r","s","i",
                         "o","n"," ","o","f"," ","i","n","f","o","r","m",
                         "a","t","i","o","n"," ","i","n"," ","t","h","e",
                         " ","d","o","c","u","m","e","n","t",".">>,
     type |-> "true_false"]

\* the loop of lines 267-292 from iteration i (1-based) to iteration last
RECURSIVE TFLoop(_, _, _)
TFLoop(sentences, i, last) ==
    IF i > last
    THEN <<>>
    ELSE <<TrueQuestion(sentences[i])>>
            \o (IF i < Len(sentences) THEN <<FalseQuestion(sentences, i)>> ELSE <<>>)
            \o TFLoop(sentences, i + 1, last)

\* questions[:n], also for a negative n
SliceTo(l, n) ==
    IF n >= 0 THEN Prefix(l, n) ELSE Prefix(l, MaxOf(0, Len(l) + n))

generate_true_false_questions(t, n) ==
    LET sentences == SentencesLongerThan(t, MinTFSentenceLen)
    IN  SliceTo(TFLoop(sentences, 1, MinOf(n, Len(sentences))), n)

-----------------------------------------------------------------------------
(* SpecGen: the two generators applied to a text and a requested count.    *)
(* A text is a few sentences, each closed by a full stop, joined by spaces. *)

MaxSentences == 3
MaxCount == 4

SentencePieces ==
    << \* 41 characters, key term Alpha
       <<"A","l","p","h","a"," ","i","s"," ","t","h","e"," ","f","i","r",
         "s","t"," ","l","e","t","t","e","r"," ","o","f"," ","t","h","e",
         "m"," ","a","l","l"," ","n","o","w">>,
       \* 40 characters, no key term, neither "is" nor "are"
       <<"t","h","e"," ","c","a","t"," ","s","a","t"," ","o","n"," ","t",
         "h","e"," ","m","a","t"," ","a","n","d"," ","a","t","e"," ","a",
         "l","l"," ","o","f"," ","i","t">>,
       \* 26 characters: a sentence for true/false only; key term Beta
       <<"B","e","t","a"," ","r","a","y","s"," ","a","r","e"," ","b","a",
         "d"," ","f","o","r"," ","t","h","e","m">> >>

\* 107 characters, mentions alpha, no key term
LongAlphaPiece ==
    <<"m","a","n","y"," ","o","l","d"," ","m","e","n"," ","s","a","y"," ",
      "t","h","a","t"," ","a","l","p","h","a"," ","i","s"," ","t","h","e",
      " ","o","n","e"," ","t","r","u","e"," ","s","i","g","n"," ","o","f",
      " ","t","h","e"," ","g","o","o","d"," ","d","a","y","s"," ","t","o",
      " ","c","o","m","e"," ","f","o","r"," ","a","l","l"," ","o","f"," ",
      "u","s"," ","w","h","o"," ","w","a","i","t"," ","a","n","d"," ","s",
      "e","e"," ","i","t">>

\* 105 characters, no key term
LongPlainPiece ==
    <<"t","h","e"," ","b","i","g"," ","o","l","d"," ","r","i","v","e","r",
      " ","i","s"," ","s","o"," ","w","i","d","e"," ","t","h","a","t"," ",
      "n","o"," ","m","a","n"," ","c","a","n"," ","s","w","i","m"," ","f",
      "r","o","m"," ","o","n","e"," ","s","i","d","e"," ","o","f"," ","i",
      "t"," ","t","o"," ","t","h","e"," ","f","a","r"," ","s","i","d","e",
      " ","i","n"," ","a"," ","d","a","y"," ","o","r"," ","i","n"," ","t",
      "w","o">>

\* 43 characters, key terms Gamma and Delta
TwoTermPiece ==
    <<"G","a","m","m","a"," ","a","n","d"," ","D","e","l","t","a"," ","a",
      "r","e"," ","t","h","e"," ","n","e","x","t"," ","t","w","o"," ","i",
      "n"," ","t","h","e"," ","r","o","w">>

\* 40 characters: the third generic distractor of lines 239-243 as a sentence
\* of the document; key terms Information and document
FillerPiece == GenericDistractors(<<>>)[3]

\* "p1. p2. ... pn."
Sentences(pieces) == Join([i \in 1..Len(pieces) |-> pieces[i] \o <<".">>])

TextOf(p) == Sentences([i \in 1..Len(p) |-> SentencePieces[p[i]]])

\* four longer texts: one where two key terms have a context sentence and
\* there are three other sentences to sample from; one where the first
\* context sentence of Alpha has 100 characters or more; one where a sampled
\* distractor has more than 100 characters; one with five true/false sentences
ExtraTexts ==
    {Sentences(<<TwoTermPiece, SentencePieces[2], SentencePieces[2], SentencePieces[2]>>),
     Sentences(<<LongAlphaPiece, SentencePieces[1], SentencePieces[2]>>),
     Sentences(<<SentencePieces[1], SentencePieces[2], LongPlainPiece, SentencePieces[2]>>),
     TextOf(<<1, 3, 2, 1, 3>>)}

\* a text whose first sentence reads like a generic distractor, with fewer
\* than three sentences that do not mention its key terms
FillerTexts ==
    {Sentences(<<FillerPiece, SentencePieces[2], SentencePieces[2]>>)}

GenTexts ==
    {TextOf(p) : p \in SeqsUpTo(1..Len(SentencePieces), MaxSentences)}
        \cup ExtraTexts \cup FillerTexts

\* the calls the model draws, each a text and a requested count.  The filler
\* text is run for at most one question: both of its key terms have a context
\* sentence, so every further question multiplies its outcomes by 96.
GenInputs ==
    ((GenTexts \ FillerTexts) \X (0..MaxCount)) \cup (FillerTexts \X (0..1))

InitGen ==
    /\ \E input \in GenInputs :
        /\ text = input[1]
        /\ num_questions = input[2]
    /\ ret = NotCalled
    /\ ret2 = NotCalled
    /\ used_terms = {}
    /\ NoSession

CallGenerateMultipleChoice ==
    /\ ret = NotCalled
    /\ \E out \in generate_multiple_choice_questions(text, num_questions) :
        /\ ret' = out.questions
        /\ used_terms' = out.used_terms
    /\ last_op' = "generate_multiple_choice_questions"
    /\ UNCHANGED <<text, num_questions, ret2, session, results>>

CallGenerateTrueFalse ==
    /\ ret = NotCalled
    /\ ret' = generate_true_false_questions(text, num_questions)
    /\ last_op' = "generate_true_false_questions"
    /\ UNCHANGED <<text, num_questions, ret2, used_terms, session, results>>

NextGen == CallGenerateMultipleChoice \/ CallGenerateTrueFalse

SpecGen == InitGen /\ [][NextGen]_vars

\* The sentences and concepts of each input text, computed once per text.
UsableSentences == [t \in GenTexts |-> SentencesLongerThan(t, MinMCSentenceLen)]
TrueFalseSentences == [t \in GenTexts |-> SentencesLongerThan(t, MinTFSentenceLen)]
Concepts == [t \in GenTexts |-> KeyTermSet(t)]

MCCalled == ret # NotCalled /\ last_op = "generate_multiple_choice_questions"
TFCalled == ret # NotCalled /\ last_op = "generate_true_false_questions"

\* C1: every question a generator returns has its correct_answer among its
\* options, and has exactly 4 options (multiple choice) or exactly 2 options
\* (true/false), whatever the text and the requested count.
C1_AnswerAmongOptions ==
    ret # NotCalled =>
        \A k \in 1..Len(ret) :
            /\ ret[k].correct_answer \in Range(ret[k].options)
            /\ MCCalled => Len(ret[k].options) = 4
            /\ TFCalled => Len(ret[k].options) = 2

\* C1 witness: a multiple-choice run returned two questions whose distractors
\* were sampled from the other sentences
C1_Witness ==
    /\ MCCalled
    /\ Len(ret) = 2
    /\ \A k \in 1..2 :
        Range(ret[k].options) \subseteq Range(UsableSentences[text])

\* C7: generate_multiple_choice_questions returns the empty list, for every
\* requested count, when the text has fewer than 3 sentences (split on '.')
\* whose trimmed length exceeds 30 characters.
C7_TooShortGivesNothing ==
    (MCCalled /\ Len(UsableSentences[text]) < 3) => ret = <<>>

\* C7 witness: a run on a text of exactly two such sentences, with a key term
\* that one of them mentions and a positive count, returned the empty list
C7_Witness ==
    /\ MCCalled
    /\ num_questions > 0
    /\ Len(UsableSentences[text]) = 2
    /\ \E term \in Concepts[text] :
        \E k \in 1..2 : Mentions(UsableSentences[text][k], term)
    /\ ret = <<>>

\* the drawn terms that occur in at least one usable sentence
DrawnWithContext ==
    LET sentences == UsableSentences[text]
    IN  {term \in used_terms :
            \E k \in DOMAIN sentences : Mentions(sentences[k], term)}

\* C5: on a text with at least 3 usable sentences and concept set K,
\* generate_multiple_choice_questions(text, N) draws min(N, |K|) distinct
\* concepts and returns one question for each drawn concept that occurs in a
\* usable sentence and none for the others: never more than min(N, |K|)
\* questions, and no concept is drawn in place of a skipped one.
C5_OneQuestionPerDrawnConceptWithContext ==
    (MCCalled /\ Len(UsableSentences[text]) >= 3) =>
        LET K == Concepts[text]
            drawn == MinOf(num_questions, MinOf(Cardinality(K), MaxKeyTerms))
        IN  /\ used_terms \subseteq K
            /\ Cardinality(used_terms) = drawn
            /\ Len(ret) = Cardinality(DrawnWithContext)
            /\ {ret[k].topic : k \in 1..Len(ret)} = DrawnWithContext
            /\ Len(ret) <= drawn

\* C5 witness: with two concepts and one question requested, the concept drawn
\* has no context sentence, so the run returned nothing although the other
\* concept has one
C5_Witness ==
    /\ MCCalled
    /\ Len(UsableSentences[text]) >= 3
    /\ num_questions = 1
    /\ Cardinality(Concepts[text]) = 2
    /\ Cardinality(used_terms) = 1
    /\ DrawnWithContext = {}
    /\ ret = <<>>
    /\ \E term \in Concepts[text] :
        \E k \in DOMAIN UsableSentences[text] :
            Mentions(UsableSentences[text][k], term)

\* C6: over the L sentences longer than 20 characters, in source order,
\* generate_true_false_questions(text, N) returns exactly min(N, 2L-1) items
\* (0 when L = 0); the item at 0-based position k is built from sentence
\* floor(k/2), is the sentence itself with answer 'True' when k is even, and
\* the negation of that same sentence with answer 'False' when k is odd.
C6_TrueFalsePairing ==
    TFCalled =>
        LET S == TrueFalseSentences[text]
            L == Len(S)
        IN  /\ Len(ret) = IF L = 0 THEN 0 ELSE MinOf(num_questions, 2 * L - 1)
            /\ \A k \in 0..(Len(ret) - 1) :
                LET q == ret[k + 1]
                    s == S[(k \div 2) + 1]
                IN  IF k % 2 = 0
                    THEN q.correct_answer = TrueStr /\ q.question = TFPrompt(s)
                    ELSE q.correct_answer = FalseStr
                            /\ q.question = TFPrompt(Negate(s))

\* C6 witness: 4 items requested from 5 qualifying sentences gave exactly
\* True, False, True, False, and a False item differs from what the next
\* sentence would have given
C6_Witness ==
    /\ TFCalled
    /\ num_questions = 4
    /\ Len(TrueFalseSentences[text]) = 5
    /\ Len(ret) = 4
    /\ <<ret[1].correct_answer, ret[2].correct_answer,
         ret[3].correct_answer, ret[4].correct_answer>>
            = <<TrueStr, FalseStr, TrueStr, FalseStr>>
    /\ ret[2].question # TFPrompt(Negate(TrueFalseSentences[text][2]))

\* C14: in every multiple-choice question that
\* generate_multiple_choice_questions returns, exactly one of the 4 options
\* equals correct_answer: no distractor, sampled or generic, truncated or not,
\* is equal to the correct answer.
C14_OneCorrectOption ==
    MCCalled =>
        \A k \in 1..Len(ret) :
            Cardinality({i \in 1..Len(ret[k].options) :
                            ret[k].options[i] = ret[k].correct_answer}) = 1

\* C15: within one result of generate_true_false_questions no prompt is
\* returned once with correct_answer 'True' and once with correct_answer
\* 'False'; in particular the 'False' item built from a sentence never has the
\* prompt of the 'True' item built from that sentence.
C15_NoPromptBothTrueAndFalse ==
    TFCalled =>
        \A j, k \in 1..Len(ret) :
            ret[j].question = ret[k].question =>
                ret[j].correct_answer = ret[k].correct_answer

-----------------------------------------------------------------------------
(* display_quiz_results: the scorer.  user_answers maps 0-based question   *)
(* indices to the submitted option.                                        *)

ExcellentPercent == 80
GoodPercent == 60

\* the default of user_answers.get(i, "Not answered")
NotAnsweredStr ==
    <<"N","o","t"," ","a","n","s","w","e","r","e","d">>

GeneralStr == <<"G","e","n","e","r","a","l">>

\* user_answers.get(i, "Not answered")
GetAnswer(answers, i) == IF i \in DOMAIN answers THEN answers[i] ELSE NotAnsweredStr

\* line 428
IsCorrect(user_answer, correct_answer) == user_answer = correct_answer

\* a variant of line 438 that reports an unanswered question as incorrect
AnswerStatusWithoutSkip(user_answer, is_correct) ==
    IF is_correct THEN "Correct" ELSE "Incorrect"

\* line 438: the Status column
AnswerStatus(user_answer, is_correct) ==
    IF is_correct THEN "Correct"
    ELSE IF user_answer # NotAnsweredStr THEN "Incorrect"
    ELSE "Skipped"

\* lines 433-440: the row of results_data for question i (0-based)
ResultRow(qs, answers, i) ==
    LET q == qs[i + 1]
        user_answer == GetAnswer(answers, i)
        is_correct == IsCorrect(user_answer, q.correct_answer)
    IN  [Question |-> i + 1,
         Topic |-> IF "topic" \in DOMAIN q THEN q.topic ELSE GeneralStr,
         YourAnswer |-> user_answer,
         CorrectAnswer |-> q.correct_answer,
         Status |-> AnswerStatus(user_answer, is_correct),
         Points |-> IF is_correct THEN 1 ELSE 0]

\* lines 419-431: score is the number of rows with is_correct
RECURSIVE SumPoints(_, _)
SumPoints(rows, i) ==
    IF i > Len(rows) THEN 0 ELSE rows[i].Points + SumPoints(rows, i + 1)

\* line 443: (score / total_questions) * 100 if total_questions > 0 else 0,
\* kept as the exact fraction num/den.  The program computes it in binary
\* floating point; for every total up to 2000 the float compares with 80 and
\* with 60 as the exact fraction does.
Percentage(score, total_questions) ==
    IF total_questions > 0
    THEN [num |-> score * 100, den |-> total_questions]
    ELSE [num |-> 0, den |-> 1]

\* a variant of lines 445 and 449 with strict comparisons
PercentAbove(percentage, k) == percentage.num > k * percentage.den

\* percentage >= k
PercentAtLeast(percentage, k) == percentage.num >= k * percentage.den

\* lines 445-456
ScoreClass(percentage) ==
    IF PercentAtLeast(percentage, ExcellentPercent) THEN "excellent-score"
    ELSE IF PercentAtLeast(percentage, GoodPercent) THEN "good-score"
    ELSE "poor-score"

\* line 475: completion_rate = (answered_questions / total_questions) * 100
\* has no guard, so it raises ZeroDivisionError when there is no question
CompletionRateRaises(total_questions) == total_questions = 0

\* what a run of display_quiz_results(questions, user_answers) computes, and
\* the exception it ends with, if any
display_quiz_results(qs, answers) ==
    LET total_questions == Len(qs)
        answered_questions == Cardinality(DOMAIN answers)
        results_data == [k \in 1..Len(qs) |-> ResultRow(qs, answers, k - 1)]
        score == SumPoints(results_data, 1)
        percentage == Percentage(score, total_questions)
    IN  [score |-> score,
         total_questions |-> total_questions,
         answered_questions |-> answered_questions,
         results_data |-> results_data,
         percentage |-> percentage,
         score_class |-> ScoreClass(percentage),
         raised |-> IF CompletionRateRaises(total_questions)
                    THEN "ZeroDivisionError" ELSE "none"]

-----------------------------------------------------------------------------
(* SpecScore: the scorer applied to a quiz and an answers mapping.  The     *)
(* quizzes are the first n questions of what the generators return for one *)
(* document, as main() keeps them (all_questions[:num_questions]).         *)

MaxQuizLen == 5

AlphaTerm == SubSeq(SentencePieces[1], 1, 5)

\* the multiple-choice question of Alpha that a run on "Alpha... the cat...
\* the cat..." can return, taken with the correct answer listed first
SampleMCQuestion ==
    LET sentences == SentencesLongerThan(TextOf(<<1, 2, 2>>), MinMCSentenceLen)
    IN  (CHOOSE l \in MCIteration(sentences, AlphaTerm) :
            l[1].options[1] = l[1].correct_answer)[1]

\* that question, then the true/false questions of a five-sentence text
FullQuiz ==
    <<SampleMCQuestion>>
        \o generate_true_false_questions(TextOf(<<1, 3, 2, 1, 3>>), MaxQuizLen - 1)

\* m with the answer o recorded for question i
RecordAnswer(m, i, o) == [j \in DOMAIN m \cup {i} |-> IF j = i THEN o ELSE m[j]]

\* the answer mappings over the first k questions of qs: any subset of the
\* indices, each with one of the options of its question
RECURSIVE AnswerMaps(_, _)
AnswerMaps(qs, k) ==
    IF k = 0 THEN {<<>>}
    ELSE LET shorter == AnswerMaps(qs, k - 1)
         IN  shorter \cup {RecordAnswer(m, k - 1, o) :
                            m \in shorter, o \in Range(qs[k].options)}

InitScore ==
    /\ questions \in {Prefix(FullQuiz, n) : n \in 0..MaxQuizLen}
    /\ user_answers \in AnswerMaps(FullQuiz, Len(FullQuiz))
    /\ quiz_generated = TRUE
    /\ quiz_submitted = TRUE
    /\ pdf_processed = TRUE
    /\ results = NoResults
    /\ last_op = "init"
    /\ text = <<>>
    /\ num_questions = 0
    /\ ret = NotCalled
    /\ ret2 = NotCalled
    /\ used_terms = {}

CallDisplayQuizResults ==
    /\ results = NoResults
    /\ results' = display_quiz_results(questions, user_answers)
    /\ last_op' = "display_quiz_results"
    /\ UNCHANGED <<text, num_questions, ret, ret2, used_terms, session>>

NextScore == CallDisplayQuizResults

SpecScore == InitScore /\ [][NextScore]_vars

\* C3: invoked with zero questions, the scorer yields percentage 0 and
\* completes without a divide-by-zero exception, whatever the answers are.
C3_NoQuestionsNoException ==
    (ResultsShown /\ Len(questions) = 0) =>
        /\ results.percentage.num = 0
        /\ results.raised = "none"

\* the indices whose submitted answer equals the question's correct answer
CorrectIndices ==
    {i \in 0..(Len(questions) - 1) :
        i \in DOMAIN user_answers /\ user_answers[i] = questions[i + 1].correct_answer}

\* C4: for a non-empty quiz and any answers mapping, the score is the number
\* of indices whose submitted answer equals the question's correct answer; an
\* unanswered index scores 0 points and is reported as skipped, not as
\* incorrect; all answers correct gives 100 percent, no answer gives 0.
C4_ScoreCountsCorrectAnswers ==
    (ResultsShown /\ Len(questions) > 0) =>
        /\ results.raised = "none"
        /\ results.score = Cardinality(CorrectIndices)
        /\ \A i \in 0..(Len(questions) - 1) :
            /\ results.results_data[i + 1].Points = IF i \in CorrectIndices THEN 1 ELSE 0
            /\ i \notin DOMAIN user_answers =>
                /\ results.results_data[i + 1].Points = 0
                /\ results.results_data[i + 1].Status = "Skipped"
            /\ (i \in DOMAIN user_answers /\ i \notin CorrectIndices) =>
                results.results_data[i + 1].Status = "Incorrect"
        /\ Cardinality(CorrectIndices) = Len(questions) =>
            results.percentage.num = 100 * results.percentage.den
        /\ DOMAIN user_answers = {} => results.percentage.num = 0

\* C4 witness: a quiz of three questions scored with one answer right, one
\* wrong and one question left unanswered
C4_Witness ==
    /\ ResultsShown
    /\ Len(questions) = 3
    /\ results.score = 1
    /\ \E i, j, k \in 0..2 :
        /\ results.results_data[i + 1].Status = "Correct"
        /\ results.results_data[j + 1].Status = "Incorrect"
        /\ results.results_data[k + 1].Status = "Skipped"

\* C10: for 0 <= score <= total and total > 0 the tier is 'excellent' exactly
\* when 100*score >= 80*total, 'good' exactly when
\* 60*total <= 100*score < 80*total, and 'needs improvement' otherwise.
C10_TierThresholds ==
    (ResultsShown /\ results.total_questions > 0) =>
        LET score == results.score
            total == results.total_questions
        IN  /\ 0 <= score /\ score <= total
            /\ results.score_class = "excellent-score" <=> 100 * score >= 80 * total
            /\ results.score_class = "good-score" <=>
                (60 * total <= 100 * score /\ 100 * score < 80 * total)
            /\ results.score_class = "poor-score" <=> 100 * score < 60 * total

\* C10 witness: 4 of 5 right, exactly 80 percent, is rated excellent
C10_Witness ==
    /\ ResultsShown
    /\ results.total_questions = 5
    /\ results.score = 4
    /\ results.score_class = "excellent-score"

-----------------------------------------------------------------------------
(* main(): the Streamlit session.  Each action is one run of the script,    *)
(* started by a click on a button or by the quiz form's submit button.      *)

MinCleanedLen == 100
SliderMin == 3
SliderMax == 20
TFShare == 4
MaxNumQuestions == 3

\* an uploaded file is the list of its pages' texts, or cannot be read
PageA == SentencePieces[1] \o <<".">>
PageB == SentencePieces[2] \o <<".", " ", "#">>

UploadedFiles ==
    {[readable |-> FALSE, pages |-> <<>>],
     [readable |-> TRUE, pages |-> <<>>],
     [readable |-> TRUE, pages |-> <<PageA>>],
     [readable |-> TRUE, pages |-> <<PageB, PageB, PageB>>],
     [readable |-> TRUE, pages |-> <<PageA, PageB, PageB, PageB>>]}

\* QuizGenerator.extract_text_from_pdf: the pages' texts, each followed by a
\* newline, stripped; "" when PyPDF2 raises
extract_text_from_pdf(file) ==
    IF file.readable
    THEN Strip(Concat([i \in 1..Len(file.pages) |-> file.pages[i] \o <<"\n">>], 1))
    ELSE <<>>

\* lines 582-591: the session state main() sets up when the keys are missing
InitialSession ==
    /\ questions = <<>>
    /\ user_answers = <<>>
    /\ quiz_generated = FALSE
    /\ quiz_submitted = FALSE
    /\ pdf_processed = FALSE

Init ==
    /\ InitialSession
    /\ results = NoResults
    /\ last_op = "init"
    /\ text = <<>>
    /\ num_questions = 0
    /\ ret = <<>>
    /\ ret2 = NotCalled
    /\ used_terms = {}

\* a variant of the error branches that also throws the current quiz away
ReportErrorAndDropQuiz(message) ==
    /\ last_op' = message
    /\ questions' = <<>>
    /\ quiz_generated' = FALSE
    /\ UNCHANGED <<user_answers, quiz_submitted, pdf_processed>>

\* lines 659, 693, 695: st.error(...) and nothing else
ReportError(message) ==
    /\ last_op' = message
    /\ UNCHANGED session

\* line 672: max(1, num_questions // 4)
TFCount(n) == MaxOf(1, n \div TFShare)

\* the question-type selections of the multiselect (lines 608-613)
QuestionTypeChoices == SUBSET {"Multiple Choice", "True/False"}

\* the slider values the model draws
SliderValues == SliderMin..MinOf(MaxNumQuestions, SliderMax)

FailedOutcome(message) == [message |-> message, questions |-> <<>>]

\* lines 649-695 up to the point where the session is written or the error
\* is shown: the possible outcomes of a click on "Generate Quiz" with the
\* uploaded file, the slider value n and the selected question types; an
\* outcome is the message shown and, on success, final_questions
GenerateOutcome(file, n, question_types) ==
    LET pdf_text == extract_text_from_pdf(file)
        cleaned_text == clean_text(pdf_text)
    IN  IF pdf_text = <<>>
        THEN {FailedOutcome("generate: could not extract text")}
        ELSE IF Len(cleaned_text) < MinCleanedLen
        THEN {FailedOutcome("generate: content too short")}
        ELSE LET mc_runs ==
                    IF "Multiple Choice" \in question_types
                    THEN {out.questions :
                            out \in generate_multiple_choice_questions(cleaned_text, n)}
                    ELSE {<<>>}
                 tf_questions ==
                    IF "True/False" \in question_types
                    THEN generate_true_false_questions(cleaned_text, TFCount(n))
                    ELSE <<>>
             IN  UNION {
                    LET all_questions == mc_questions \o tf_questions
                    IN  IF all_questions # <<>>
                        THEN {[message |-> "generate: success",
                               questions |-> Prefix(shuffled, n)] :
                                shuffled \in Shuffles(all_questions)}
                        ELSE {FailedOutcome("generate: failed to generate questions")} :
                    mc_questions \in mc_runs}

\* the outcomes of every click the model draws
GenerateOutcomes ==
    [file \in UploadedFiles |->
        [n \in SliderValues |->
            [question_types \in QuestionTypeChoices |->
                GenerateOutcome(file, n, question_types)]]]

\* a variant of line 686 that keeps the answers of the quiz being replaced
AnswersKeptAfterGenerate(answers) == answers

\* line 686: st.session_state.user_answers = {}
AnswersAfterGenerate(answers) == <<>>

\* lines 647-695: a click on "Generate Quiz"; lines 684-688 on success, one
\* of the st.error calls otherwise
GenerateQuiz ==
    \E file \in UploadedFiles, n \in SliderValues, question_types \in QuestionTypeChoices :
        \E out \in GenerateOutcomes[file][n][question_types] :
            /\ IF out.message = "generate: success"
               THEN /\ questions' = out.questions
                    /\ quiz_generated' = TRUE
                    /\ user_answers' = AnswersAfterGenerate(user_answers)
                    /\ quiz_submitted' = FALSE
                    /\ pdf_processed' = TRUE
                    /\ last_op' = out.message
               ELSE ReportError(out.message)
            /\ UNCHANGED <<text, num_questions, ret, ret2, used_terms, results>>

\* lines 700-707 and, after st.rerun(), lines 582-591: a click on "Reset"
ResetQuiz ==
    /\ quiz_generated
    /\ questions' = <<>>
    /\ user_answers' = <<>>
    /\ quiz_generated' = FALSE
    /\ quiz_submitted' = FALSE
    /\ pdf_processed' = FALSE
    /\ last_op' = "reset"
    /\ UNCHANGED <<text, num_questions, ret, ret2, used_terms, results>>

\* a variant of the form that reorders the options of the first question
QuestionsReshuffled(qs) ==
    IF qs = <<>> THEN qs
    ELSE [qs EXCEPT ![1].options =
            [i \in 1..Len(@) |-> @[Len(@) + 1 - i]]]

\* lines 371-393: the form reads the questions and writes none of them
QuestionsAfterInterface(qs) == qs

\* a variant of line 391 that files the answer of question i under i + 1
RecordAnswersOneBased(answers, selected) ==
    [i \in DOMAIN answers \cup {j + 1 : j \in DOMAIN selected} |->
        IF i - 1 \in DOMAIN selected THEN selected[i - 1] ELSE answers[i]]

\* lines 390-391: user_answers[i] = user_answer for every radio with a choice
RecordAnswers(answers, selected) ==
    [i \in DOMAIN answers \cup DOMAIN selected |->
        IF i \in DOMAIN selected THEN selected[i] ELSE answers[i]]

\* a variant of line 408 that accepts a submit with no answer recorded
SubmitAcceptedAlways(answers) == TRUE

\* lines 408-410: a submit is accepted unless len(user_answers) == 0
SubmitAccepted(answers) == Cardinality(DOMAIN answers) # 0

\* lines 711-713 and 366-412: the run started by the form's submit button.
\* The radios live in st.form (line 370), so their choices reach the script
\* in this run only: `selected` maps the indices of the radios with a choice
\* to their choices.  A submit with an answer recorded sets quiz_submitted
\* and reruns the script, which then shows the results (lines 715-717).
SubmitQuiz ==
    \E selected \in AnswerMaps(questions, Len(questions)) :
        /\ quiz_generated /\ ~quiz_submitted
        /\ questions' = QuestionsAfterInterface(questions)
        /\ user_answers' = RecordAnswers(user_answers, selected)
        /\ IF SubmitAccepted(user_answers')
           THEN /\ quiz_submitted' = TRUE
                /\ results' = display_quiz_results(questions', user_answers')
                /\ last_op' = "submit"
           ELSE /\ UNCHANGED <<quiz_submitted, results>>
                /\ last_op' = "submit: no answer"
        /\ UNCHANGED <<text, num_questions, ret, ret2, used_terms,
                       quiz_generated, pdf_processed>>

Next == GenerateQuiz \/ SubmitQuiz \/ ResetQuiz

Spec == Init /\ [][Next]_vars

FailedGenerate ==
    {"generate: could not extract text", "generate: content too short",
     "generate: failed to generate questions"}

\* C8: a generation attempt that fails (no text extracted, cleaned text
\* shorter than 100 characters, or no question produced) leaves questions,
\* user_answers, quiz_generated, quiz_submitted and pdf_processed as they
\* were; it is one step, and another attempt is another click.
C8_FailedGenerateKeepsSession ==
    [][last_op' \in FailedGenerate => session' = session]_vars

\* C8 witness: generation failed for lack of questions while a submitted quiz
\* with answers was in the session
C8_Witness ==
    /\ last_op = "generate: failed to generate questions"
    /\ quiz_generated /\ quiz_submitted
    /\ questions # <<>>
    /\ DOMAIN user_answers # {}

\* C9: recording an answer and submitting the quiz never change the question
\* sequence; the only steps that change it replace it whole (a successful
\* generation) or clear it (reset).
C9_QuestionsOnlyReplacedOrCleared ==
    [][/\ last_op' \in {"submit", "submit: no answer"} =>
            questions' = questions
       /\ questions' # questions =>
            \/ last_op' = "generate: success" /\ questions' # <<>>
            \/ last_op' = "reset" /\ questions' = <<>>]_vars

\* C9 witness: a quiz of two questions was submitted with an answer recorded
C9_Witness ==
    /\ last_op = "submit"
    /\ Len(questions) = 2
    /\ DOMAIN user_answers # {}
    /\ quiz_submitted

\* C11: whenever the question sequence changes (a successful generation or a
\* reset), the answers mapping is emptied and the submitted flag is cleared in
\* the same step, and a reset leaves the session as main() first set it up:
\* no questions, no answers, not generated, not submitted.
C11_NewQuizStartsUnanswered ==
    [][/\ questions' # questions =>
            user_answers' = <<>> /\ quiz_submitted' = FALSE
       /\ last_op' = "reset" => InitialSession']_vars

\* C11 witness: a new quiz was generated after an earlier one had been
\* submitted and scored, and it starts without answers and not submitted
C11_Witness ==
    /\ last_op = "generate: success"
    /\ ResultsShown
    /\ questions # <<>>
    /\ user_answers = <<>>
    /\ ~quiz_submitted

\* C12: in every reachable session state, quiz_submitted implies that a quiz
\* was generated, that the question sequence is not empty and that at least
\* one answer is recorded; so the results view is never computed over zero
\* questions, and a submit with no recorded answer leaves quiz_submitted false.
C12_SubmittedQuizHasQuestionsAndAnswers ==
    /\ quiz_submitted =>
            /\ quiz_generated
            /\ questions # <<>>
            /\ DOMAIN user_answers # {}
    /\ ResultsShown =>
            results.total_questions > 0 /\ results.raised = "none"
    /\ last_op = "submit: no answer" => ~quiz_submitted

\* C12 witness: a quiz of two questions was submitted with one of them
\* answered, and the results view was computed over both
C12_Witness ==
    /\ last_op = "submit"
    /\ quiz_submitted
    /\ results.total_questions = 2
    /\ results.answered_questions = 1

\* C13: in every reachable session state every key of user_answers is a valid
\* 0-based index into the current question sequence and its value is one of
\* that question's options; so the number of answered questions never exceeds
\* the number of questions, in the session and in what the scorer reports.
C13_AnswersBelongToQuestions ==
    /\ \A i \in DOMAIN user_answers :
            /\ i \in 0..(Len(questions) - 1)
            /\ user_answers[i] \in Range(questions[i + 1].options)
    /\ Cardinality(DOMAIN user_answers) <= Len(questions)
    /\ ResultsShown => results.answered_questions <= results.total_questions

\* C13 witness: both questions of a quiz of two were answered, the last one
\* included, and the quiz was scored
C13_Witness ==
    /\ last_op = "submit"
    /\ Len(questions) = 2
    /\ DOMAIN user_answers = {0, 1}
    /\ results.answered_questions = 2

=============================================================================
